---- MODULE Spec2Model ----
(***************************************************************************)
(* Filing extraction and deduplication pipeline of hikari-stalker:         *)
(* parser.py (EdinetParser, parse_and_filter_reports) and db.py            *)
(* (ReportDatabase).                                                       *)
(*                                                                         *)
(* Text is a sequence of symbols.  ASCII characters that the code treats   *)
(* specially (digits, ".", "%", "_", " ") are one symbol each; a Japanese  *)
(* literal of the source is one symbol, written in romaji:                 *)
(*   "FUMEI"   = 不明            "TAIRYO"  = 大量保有報告書                *)
(*   "HENKOU"  = 変更報告書      "SHORUI"  = 提出書類                      *)
(*   "SHIMEI"  = 氏名又は名称    "GIMUBI"  = 報告義務発生日                *)
(*   "TEISHUTSUBI" = 提出日                                                *)
(* Python's None is the one-symbol sequence <<"None">>, which is no text   *)
(* the documents can hold.                                                 *)
(***************************************************************************)
EXTENDS Integers, Sequences, FiniteSets, TLC

VARIABLES
    store,        \* rows of table processed_reports (persists across runs)
    now,          \* datetime.now(), one tick per run
    pc,           \* "idle", "loop" (parse_directory), "format"
    batch,        \* names of the bundles under the download directory, in
                  \* the order parse_directory finds them (newest first)
    idx,          \* position of the loop in batch
    results,      \* parse_directory: results
    new_results,  \* parse_directory: new_results
    messages,     \* what parse_and_filter_reports returned, or Raised
    dbOpen,       \* the sqlite connection of the run's parser is open
    gate,         \* history: what the loop of this run did with each bundle
    recorded,     \* history: identities whose mark_as_processed committed
    known,        \* history: identities in the store when the run started
    faults,       \* history: number of store accesses and sends that failed
    sent,         \* the calls of send_line_message in this run: [msg, ok]
    exit,         \* how the last run ended: "none" (not yet), "ok",
                  \* "open_error" or "format_error" (uncaught exception)
    log,          \* history: the last two finished runs, oldest first
    inp,          \* documents handed to the functions of the parser
    out           \* what the functions returned for inp

pipe == <<store, now, pc, batch, idx, results, new_results, messages,
          dbOpen, gate, recorded, known, faults, sent, exit, log>>

vars == <<pipe, inp, out>>

-----------------------------------------------------------------------------
(* Bounds *)

\* bundles in the download directory, runs of the pipeline, and calls to the
\* outside (opening, querying or writing the store, sending a message) that
\* fail over all runs
MaxBatch == 2
MaxRuns == 2
MaxFaults == 1
\* filings handed to the store backends side by side
MaxFeed == 3

-----------------------------------------------------------------------------
(* Python values *)

None == <<"None">>
Fumei == <<"FUMEI">>
Tairyo == <<"TAIRYO">>
Henkou == <<"HENKOU">>

Truthy(v) == v # None /\ v # <<>>

\* f"{v}": None renders as the four letters of "None"
Str(v) == IF v = None THEN <<"N", "o", "n", "e">> ELSE v

\* d.get(k): the value, or None when the key is missing
Get(d, k) == IF k \in DOMAIN d THEN d[k] ELSE None

\* d.get(k, default)
GetOr(d, k, default) == IF k \in DOMAIN d THEN d[k] ELSE default

\* a or b
Or(a, b) == IF Truthy(a) THEN a ELSE b

Digits == {"0", "1", "2", "3", "4", "5", "6", "7", "8", "9"}

IsDigit(c) == c \in Digits

Contains(text, sym) == \E i \in 1..Len(text) : text[i] = sym

HasDigit(text) == \E i \in 1..Len(text) : IsDigit(text[i])

RECURSIVE LStrip(_)
LStrip(s) == IF s # <<>> /\ Head(s) = " " THEN LStrip(Tail(s)) ELSE s

RECURSIVE RStrip(_)
RStrip(s) ==
    IF s # <<>> /\ s[Len(s)] = " " THEN RStrip(SubSeq(s, 1, Len(s) - 1)) ELSE s

\* str.strip()
Strip(s) == RStrip(LStrip(s))

\* re.sub(r'[^0-9]', '', s)
ReSubNonDigits(s) == SelectSeq(s, IsDigit)

\* s.replace('%', '')
ReplacePercent(s) == SelectSeq(s, LAMBDA c : c # "%")

\* end of the run of digits that starts at position i
RECURSIVE DigitRunEnd(_, _)
DigitRunEnd(s, i) ==
    IF i < Len(s) /\ IsDigit(s[i + 1]) THEN DigitRunEnd(s, i + 1) ELSE i

\* mutant: the pattern is r'(\d+)'
ReSearchNumber_integer_only(s) ==
    IF ~HasDigit(s) THEN None
    ELSE LET i == CHOOSE k \in 1..Len(s) :
                      IsDigit(s[k]) /\ \A j \in 1..(k - 1) : ~IsDigit(s[j])
         IN  SubSeq(s, i, DigitRunEnd(s, i))

\* re.search(r'(\d+\.\d+|\d+)', s).group(1), or None when nothing matches
ReSearchNumber(s) ==
    IF ~HasDigit(s) THEN None
    ELSE LET i == CHOOSE k \in 1..Len(s) :
                      IsDigit(s[k]) /\ \A j \in 1..(k - 1) : ~IsDigit(s[j])
             e == DigitRunEnd(s, i)
         IN  IF e + 2 <= Len(s) /\ s[e + 1] = "." /\ IsDigit(s[e + 2])
             THEN SubSeq(s, i, DigitRunEnd(s, e + 2))
             ELSE SubSeq(s, i, e)

-----------------------------------------------------------------------------
(* Documents.  A header is [st, tables, title]: st is "ok", "missing" (no  *)
(* *header*.htm* file) or "unreadable" (open/decoding fails); tables is    *)
(* the sequence of <table>s, each a sequence of rows, each a sequence of   *)
(* <td> texts; title is the <title> text or None.  A body is [st, ids]:    *)
(* ids maps the identifiers present in the document to their raw text.     *)

IdTargetCompany == "T0100000000101"
IdSecurityCode == "T0100000000201"
IdHolderName == "T0201010100401"
IdRatio == "T0201040200201"
IdRatioBefore == "T0201040200301"
IdSharesHeld == "T0201040101401"
IdPurpose == "T0201020000101"

\* soup.find('table') and its rows
FirstTableRows(header) ==
    IF header.tables = <<>> THEN <<>> ELSE header.tables[1]

\* element.text.strip() if element else None
get_text_by_id(honbun, id_value) ==
    IF id_value \in DOMAIN honbun.ids THEN Strip(honbun.ids[id_value]) ELSE None

FilerLabel(k) ==
    CASE k = "name" -> "SHIMEI"
      [] k = "report_date" -> "GIMUBI"
      [] k = "submission_date" -> "TEISHUTSUBI"

\* labels tested earlier in the if/elif chain than the label of key k
FilerShadow(k) ==
    CASE k = "name" -> {}
      [] k = "report_date" -> {"SHIMEI"}
      [] k = "submission_date" -> {"SHIMEI", "GIMUBI"}

\* the rows that assign info[k]
FilerRows(rows, k) ==
    {i \in 1..Len(rows) :
        /\ Len(rows[i]) >= 2
        /\ Contains(Strip(rows[i][1]), FilerLabel(k))
        /\ \A l \in FilerShadow(k) : ~Contains(Strip(rows[i][1]), l)}

\* info: the last assigning row wins
get_filer_info(header) ==
    LET rows == FirstTableRows(header)
    IN  [k \in {x \in {"name", "report_date", "submission_date"} :
                   FilerRows(rows, x) # {}}
         |-> LET hit == FilerRows(rows, k)
             IN  Strip(rows[CHOOSE i \in hit : \A j \in hit : j <= i][2])]

\* "不明" when soup.find('title') is None (AttributeError caught)
get_report_type(header) ==
    LET rows == FirstTableRows(header)
        hit == {i \in 1..Len(rows) :
                   Len(rows[i]) >= 2 /\ Contains(rows[i][1], "SHORUI")}
    IN  IF hit # {}
        THEN LET document_type ==
                     Strip(rows[CHOOSE i \in hit : \A j \in hit : i <= j][2])
             IN  IF Contains(document_type, "HENKOU") THEN Henkou ELSE Tairyo
        ELSE IF header.title = None THEN Fumei
        ELSE IF Contains(header.title, "TAIRYO")
                    /\ ~Contains(header.title, "HENKOU") THEN Tairyo
        ELSE IF Contains(header.title, "HENKOU") THEN Henkou
        ELSE Tairyo

\* "holding_ratio" in key
IsRatioKey(key) ==
    key \in {"holding_ratio", "holding_ratio_before", "holding_ratio_after"}

\* mutant: value[match.end():] is kept instead of match.group(1)
clean_data_rest(data) ==
    [key \in DOMAIN data |->
        IF data[key] = None THEN None
        ELSE IF IsRatioKey(key) /\ Truthy(data[key])
        THEN IF ReSearchNumber(data[key]) # None
             THEN LET v == data[key]
                      i == CHOOSE k \in 1..Len(v) :
                              IsDigit(v[k])
                                /\ \A j \in 1..(k - 1) : ~IsDigit(v[j])
                  IN  SubSeq(v, i + Len(ReSearchNumber(v)), Len(v))
             ELSE data[key]
        ELSE data[key]]

clean_data(data) ==
    [key \in DOMAIN data |->
        IF data[key] = None THEN None
        ELSE IF IsRatioKey(key) /\ Truthy(data[key])
        THEN IF ReSearchNumber(data[key]) # None
             THEN ReSearchNumber(data[key])
             ELSE data[key]
        ELSE data[key]]

parse_large_volume_report(header, honbun) ==
    LET filer_info == get_filer_info(header)
    IN  clean_data(
          [report_type |-> Tairyo,
           target_company |-> get_text_by_id(honbun, IdTargetCompany),
           security_code |-> get_text_by_id(honbun, IdSecurityCode),
           holder_name |-> Or(get_text_by_id(honbun, IdHolderName),
                              Get(filer_info, "name")),
           holding_ratio |-> get_text_by_id(honbun, IdRatio),
           report_date |-> Get(filer_info, "report_date"),
           submission_date |-> Get(filer_info, "submission_date"),
           shares_held |-> get_text_by_id(honbun, IdSharesHeld),
           purpose |-> get_text_by_id(honbun, IdPurpose)])

parse_change_report(header, honbun) ==
    LET filer_info == get_filer_info(header)
    IN  clean_data(
          [report_type |-> Henkou,
           target_company |-> get_text_by_id(honbun, IdTargetCompany),
           security_code |-> get_text_by_id(honbun, IdSecurityCode),
           holder_name |-> Or(get_text_by_id(honbun, IdHolderName),
                              Get(filer_info, "name")),
           holding_ratio_before |-> get_text_by_id(honbun, IdRatioBefore),
           holding_ratio_after |-> get_text_by_id(honbun, IdRatio),
           report_date |-> Get(filer_info, "report_date"),
           submission_date |-> Get(filer_info, "submission_date"),
           shares_held |-> get_text_by_id(honbun, IdSharesHeld),
           purpose |-> get_text_by_id(honbun, IdPurpose)])

\* mutant: a report type that is neither of the two is parsed as a
\* large-volume report
parse_files_unknown_as_large(header, honbun) ==
    IF header.st # "ok" \/ honbun.st # "ok" THEN None
    ELSE IF get_report_type(header) = Henkou
    THEN parse_change_report(header, honbun)
    ELSE parse_large_volume_report(header, honbun)

\* mutant: every report is parsed as a large-volume report
parse_files_always_large(header, honbun) ==
    IF header.st # "ok" \/ honbun.st # "ok" THEN None
    ELSE IF get_report_type(header) \in {Tairyo, Henkou}
    THEN parse_large_volume_report(header, honbun)
    ELSE None

\* None: a file cannot be read, or the report type is "不明"
parse_files(header, honbun) ==
    IF header.st # "ok" \/ honbun.st # "ok" THEN None
    ELSE LET report_type == get_report_type(header)
         IN  IF report_type = Tairyo
             THEN parse_large_volume_report(header, honbun)
             ELSE IF report_type = Henkou
             THEN parse_change_report(header, honbun)
             ELSE None

-----------------------------------------------------------------------------
(* Identity *)

\* the outcome of a call that raises instead of returning
Raised == <<"raise">>

\* mutant: the share count is part of the key
generate_report_id_with_shares(report_info) ==
    LET security_code == GetOr(report_info, "security_code", <<>>)
        submission_date == GetOr(report_info, "submission_date", <<>>)
        report_date == GetOr(report_info, "report_date", <<>>)
        report_type == GetOr(report_info, "report_type", <<>>)
        holder_name == GetOr(report_info, "holder_name", <<>>)
    IN  IF submission_date = None \/ report_date = None THEN Raised
        ELSE Str(security_code) \o <<"_">>
               \o ReSubNonDigits(submission_date) \o <<"_">>
               \o ReSubNonDigits(report_date) \o <<"_">>
               \o Str(report_type) \o <<"_">>
               \o Str(holder_name) \o <<"_">>
               \o Str(GetOr(report_info, "shares_held", <<>>))

\* mutant: the dates enter the key as they are written
generate_report_id_raw_dates(report_info) ==
    LET security_code == GetOr(report_info, "security_code", <<>>)
        submission_date == GetOr(report_info, "submission_date", <<>>)
        report_date == GetOr(report_info, "report_date", <<>>)
        report_type == GetOr(report_info, "report_type", <<>>)
        holder_name == GetOr(report_info, "holder_name", <<>>)
    IN  IF submission_date = None \/ report_date = None THEN Raised
        ELSE Str(security_code) \o <<"_">>
               \o submission_date \o <<"_">>
               \o report_date \o <<"_">>
               \o Str(report_type) \o <<"_">>
               \o Str(holder_name)

\* mutant: report date before submission date
generate_report_id_swapped(report_info) ==
    LET security_code == GetOr(report_info, "security_code", <<>>)
        submission_date == GetOr(report_info, "submission_date", <<>>)
        report_date == GetOr(report_info, "report_date", <<>>)
        report_type == GetOr(report_info, "report_type", <<>>)
        holder_name == GetOr(report_info, "holder_name", <<>>)
    IN  IF submission_date = None \/ report_date = None THEN Raised
        ELSE Str(security_code) \o <<"_">>
               \o ReSubNonDigits(report_date) \o <<"_">>
               \o ReSubNonDigits(submission_date) \o <<"_">>
               \o Str(report_type) \o <<"_">>
               \o Str(holder_name)

\* re.sub on None raises TypeError
generate_report_id(report_info) ==
    LET security_code == GetOr(report_info, "security_code", <<>>)
        submission_date == GetOr(report_info, "submission_date", <<>>)
        report_date == GetOr(report_info, "report_date", <<>>)
        report_type == GetOr(report_info, "report_type", <<>>)
        holder_name == GetOr(report_info, "holder_name", <<>>)
    IN  IF submission_date = None \/ report_date = None THEN Raised
        ELSE Str(security_code) \o <<"_">>
               \o ReSubNonDigits(submission_date) \o <<"_">>
               \o ReSubNonDigits(report_date) \o <<"_">>
               \o Str(report_type) \o <<"_">>
               \o Str(holder_name)

-----------------------------------------------------------------------------
(* Message formatter *)

DigitVal(c) ==
    CASE c = "0" -> 0 [] c = "1" -> 1 [] c = "2" -> 2 [] c = "3" -> 3
      [] c = "4" -> 4 [] c = "5" -> 5 [] c = "6" -> 6 [] c = "7" -> 7
      [] c = "8" -> 8 [] c = "9" -> 9

DigitChar(n) == <<"0", "1", "2", "3", "4", "5", "6", "7", "8", "9">>[n + 1]

RECURSIVE NatVal(_)
NatVal(s) ==
    IF s = <<>> THEN 0
    ELSE 10 * NatVal(SubSeq(s, 1, Len(s) - 1)) + DigitVal(s[Len(s)])

RECURSIVE NatText(_)
NatText(n) ==
    IF n < 10 THEN <<DigitChar(n)>>
    ELSE NatText(n \div 10) \o <<DigitChar(n % 10)>>

AllDigits(s) == s # <<>> /\ \A i \in 1..Len(s) : IsDigit(s[i])

\* s is "d+", "d+.d" or "d+.dd"; float(s) raises ValueError for a text
\* without a digit
FloatOk(s) ==
    \/ AllDigits(s)
    \/ \E i \in 2..(Len(s) - 1) :
          /\ s[i] = "."
          /\ AllDigits(SubSeq(s, 1, i - 1))
          /\ AllDigits(SubSeq(s, i + 1, Len(s)))
          /\ Len(s) - i <= 2

\* float(s), in hundredths
Float(s) ==
    IF AllDigits(s) THEN 100 * NatVal(s)
    ELSE LET i == CHOOSE k \in 2..(Len(s) - 1) : s[k] = "."
             frac == SubSeq(s, i + 1, Len(s))
         IN  100 * NatVal(SubSeq(s, 1, i - 1))
               + (IF Len(frac) = 1 THEN 10 * NatVal(frac) ELSE NatVal(frac))

\* float(v.replace('%', '')) if v else 0
RatioValue(result, key) ==
    IF Truthy(Get(result, key))
    THEN Float(ReplacePercent(GetOr(result, key, <<"0">>)))
    ELSE 0

\* the float() call of RatioValue raises ValueError
RatioRaises(result, key) ==
    Truthy(Get(result, key))
      /\ ~FloatOk(ReplacePercent(GetOr(result, key, <<"0">>)))

\* f"{h / 100:.2f}" for h >= 0
Fixed2(h) ==
    NatText(h \div 100) \o <<".", DigitChar((h % 100) \div 10), DigitChar(h % 10)>>

\* mutant: before - after
DiffStr_negated(diff) ==
    IF diff < 0 THEN <<"+">> \o Fixed2(0 - diff) \o <<"%">>
    ELSE IF diff > 0 THEN <<"-">> \o Fixed2(diff) \o <<"%">>
    ELSE Fixed2(0) \o <<"%">>

\* f"+{diff:.2f}%" if diff > 0 else f"{diff:.2f}%"
DiffStr(diff) ==
    IF diff > 0 THEN <<"+">> \o Fixed2(diff) \o <<"%">>
    ELSE IF diff < 0 THEN <<"-">> \o Fixed2(0 - diff) \o <<"%">>
    ELSE Fixed2(0) \o <<"%">>

\* f"{result.get(key, '不明')}"
Field(result, key) == Str(GetOr(result, key, Fumei))

get_line_message(result) ==
    IF result["report_type"] = Tairyo
    THEN <<"[chart]", " ">> \o Tairyo \o <<"NL", "NL">>
           \o <<"[office]", " ">> \o Field(result, "target_company")
           \o <<" ", "(">> \o Field(result, "security_code") \o <<")", "NL">>
           \o <<"[person]", " ">> \o Field(result, "holder_name") \o <<"NL">>
           \o <<"[up]", " ", "ratio", ":", " ">>
           \o Field(result, "holding_ratio") \o <<"%", "NL">>
           \o <<"[memo]", " ">> \o Field(result, "shares_held")
           \o <<"kabu", "NL">>
           \o <<"[date]", " ">> \o Field(result, "report_date") \o <<"NL">>
           \o <<"[find]", " ", "purpose", ":", " ">> \o Field(result, "purpose")
    ELSE IF RatioRaises(result, "holding_ratio_before")
              \/ RatioRaises(result, "holding_ratio_after") THEN Raised
    ELSE LET before == RatioValue(result, "holding_ratio_before")
             after == RatioValue(result, "holding_ratio_after")
         IN  <<"[chart]", " ">> \o Henkou \o <<"NL", "NL">>
                    \o <<"[office]", " ">> \o Field(result, "target_company")
                    \o <<" ", "(">> \o Field(result, "security_code")
                    \o <<")", "NL">>
                    \o <<"[person]", " ">> \o Field(result, "holder_name")
                    \o <<"NL">>
                    \o <<"[down]", " ", "before", ":", " ">>
                    \o Field(result, "holding_ratio_before") \o <<"%", "NL">>
                    \o <<"[up]", " ", "after", ":", " ">>
                    \o Field(result, "holding_ratio_after")
                    \o <<"%", " ", "(">> \o DiffStr(after - before)
                    \o <<")", "NL">>
                    \o <<"[memo]", " ">> \o Field(result, "shares_held")
                    \o <<"kabu", "NL">>
                    \o <<"[date]", " ">> \o Field(result, "report_date")
                    \o <<"NL">>
                    \o <<"[find]", " ", "purpose", ":", " ">>
                    \o Field(result, "purpose")

-----------------------------------------------------------------------------
(* Store: the rows of table processed_reports *)

HasRow(rows, report_id) == \E r \in rows : r.report_id = report_id

\* mutant: "result is None" instead of "result is not None"
db_is_already_processed_inverted(rows, report_id, err) ==
    IF err THEN FALSE ELSE ~HasRow(rows, report_id)

\* ReportDatabase.is_already_processed; FALSE when the query fails
db_is_already_processed(rows, report_id, err) ==
    IF err THEN FALSE ELSE HasRow(rows, report_id)

\* the key db.mark_as_processed derives when report_info has no report_id;
\* filter(str.isdigit, None) raises TypeError
db_fallback_id(report_info) ==
    LET security_code == GetOr(report_info, "security_code", <<>>)
        submission_date == GetOr(report_info, "submission_date", <<>>)
        report_date == GetOr(report_info, "report_date", <<>>)
        report_type == GetOr(report_info, "report_type", <<>>)
        holder_name == GetOr(report_info, "holder_name", <<>>)
    IN  IF submission_date = None \/ report_date = None THEN Raised
        ELSE Str(security_code) \o <<"_">>
               \o SelectSeq(submission_date, IsDigit) \o <<"_">>
               \o SelectSeq(report_date, IsDigit) \o <<"_">>
               \o Str(report_type) \o <<"_">>
               \o Str(holder_name)

db_report_id(report_info) ==
    IF Truthy(Get(report_info, "report_id"))
    THEN report_info["report_id"]
    ELSE db_fallback_id(report_info)

\* mutant: a plain INSERT into a table without primary key
InsertOrReplace_plain(rows, row) == rows \cup {row}

\* INSERT OR REPLACE: the row with the same primary key is deleted first
InsertOrReplace(rows, row) ==
    {r \in rows : r.report_id # row.report_id} \cup {row}

\* mutant: the row is written although the statement failed
db_mark_as_processed_no_rollback(rows, report_info, processed_at, err) ==
    InsertOrReplace(rows,
      [report_id |-> db_report_id(report_info),
       processed_at |-> processed_at,
       target_company |-> GetOr(report_info, "target_company", Fumei),
       security_code |-> GetOr(report_info, "security_code", Fumei),
       report_type |-> GetOr(report_info, "report_type", Fumei),
       holder_name |-> GetOr(report_info, "holder_name", Fumei),
       report_date |-> GetOr(report_info, "report_date", Fumei),
       submission_date |-> GetOr(report_info, "submission_date", Fumei)])

\* ReportDatabase.mark_as_processed: the rows afterwards; a failed write is
\* rolled back
db_mark_as_processed(rows, report_info, processed_at, err) ==
    IF err THEN rows
    ELSE InsertOrReplace(rows,
           [report_id |-> db_report_id(report_info),
            processed_at |-> processed_at,
            target_company |-> GetOr(report_info, "target_company", Fumei),
            security_code |-> GetOr(report_info, "security_code", Fumei),
            report_type |-> GetOr(report_info, "report_type", Fumei),
            holder_name |-> GetOr(report_info, "holder_name", Fumei),
            report_date |-> GetOr(report_info, "report_date", Fumei),
            submission_date |-> GetOr(report_info, "submission_date", Fumei)])

-----------------------------------------------------------------------------
(* Deduplication gate of the parser *)

\* EdinetParser.is_already_processed, when _generate_report_id returns
is_already_processed(rows, report_info, err) ==
    db_is_already_processed(rows, generate_report_id(report_info), err)

\* mutant: report_info['report_id'] is the security code
WithReportId_code_only(report_info) ==
    [k \in DOMAIN report_info \cup {"report_id"} |->
        IF k = "report_id" THEN Str(report_info["security_code"])
        ELSE report_info[k]]

\* EdinetParser.mark_as_processed adds the key report_id to report_info
WithReportId(report_info) ==
    [k \in DOMAIN report_info \cup {"report_id"} |->
        IF k = "report_id" THEN generate_report_id(report_info)
        ELSE report_info[k]]

mark_as_processed(rows, report_info, processed_at, err) ==
    db_mark_as_processed(rows, WithReportId(report_info), processed_at, err)

-----------------------------------------------------------------------------
(* Bundles: the PublicDoc directories a run can find *)

Row(label, value) == <<<<label>>, value>>

Date1 == <<"1", "/", "1", "1">>
Date2 == <<"R", "6", "NEN", "2", "GATSU">>

\* header with a 提出書類 row and the three filer rows; a filer row is left
\* out when its value is None
Header(document_type, name, report_date, submission_date) ==
    [st |-> "ok",
     tables |-> <<SelectSeq(<<Row("SHORUI", document_type),
                              Row("SHIMEI", name),
                              Row("GIMUBI", report_date),
                              Row("TEISHUTSUBI", submission_date)>>,
                            LAMBDA r : r[2] # None)>>,
     title |-> <<"TAIRYO">>]

Honbun(ids) == [st |-> "ok", ids |-> ids]

BodyLarge(shares, ratio) ==
    (IdTargetCompany :> <<"X", "sha">>) @@ (IdSecurityCode :> <<"9", "4">>)
      @@ (IdHolderName :> <<"A">>) @@ (IdRatio :> ratio)
      @@ (IdSharesHeld :> shares) @@ (IdPurpose :> <<"toushi">>)

BodyChange(holder, before, after) ==
    (IdTargetCompany :> <<"X", "sha">>) @@ (IdSecurityCode :> <<"9", "4">>)
      @@ (IdHolderName :> holder) @@ (IdRatioBefore :> before)
      @@ (IdRatio :> after)
      @@ (IdSharesHeld :> <<"1", "0", "0">>) @@ (IdPurpose :> <<"toushi">>)

LargeHeader == Header(<<"TAIRYO">>, <<"A">>, Date1, Date2)
ChangeHeader == Header(<<"HENKOU">>, <<"A">>, Date1, Date2)

BundleNames ==
    {"large", "large2", "dash", "nodate", "unknown", "noheader", "nocode",
     "nobody", "badfile"}

Bundle(name) ==
    CASE name = "large" ->
           [header |-> LargeHeader,
            honbun |-> Honbun(BodyLarge(<<"1", "0", "0">>,
                                        <<"5", ".", "3", "1", "%">>))]
      [] name = "large2" ->
           \* the five identity fields of "large", other shares and ratio
           [header |-> LargeHeader,
            honbun |-> Honbun(BodyLarge(<<"2", "0", "0">>, <<"6", "%">>))]
      [] name = "dash" ->
           \* the ratio before the change is a dash, not a number
           [header |-> ChangeHeader,
            honbun |-> Honbun(BodyChange(<<"B">>, <<"-">>, <<"5", "%">>))]
      [] name = "nodate" ->
           \* no 提出日 row in the header
           [header |-> Header(<<"TAIRYO">>, <<"A">>, Date1, None),
            honbun |-> Honbun(BodyLarge(<<"1", "0", "0">>, <<"5", "%">>))]
      [] name = "unknown" ->
           \* neither a table nor a title: the report type is 不明
           [header |-> [st |-> "ok", tables |-> <<>>, title |-> None],
            honbun |-> Honbun(BodyLarge(<<"1", "0", "0">>, <<"5", "%">>))]
      [] name = "noheader" ->
           [header |-> [st |-> "missing", tables |-> <<>>, title |-> None],
            honbun |-> Honbun(BodyLarge(<<"1", "0", "0">>, <<"5", "%">>))]
      [] name = "nobody" ->
           \* no *honbun*.htm* file
           [header |-> LargeHeader,
            honbun |-> [st |-> "missing", ids |-> <<>>]]
      [] name = "badfile" ->
           \* the header file cannot be decoded as utf-8: open/parse raises
           [header |-> [st |-> "unreadable", tables |-> <<>>, title |-> None],
            honbun |-> Honbun(BodyLarge(<<"1", "0", "0">>, <<"5", "%">>))]
      [] name = "nocode" ->
           \* a change report without security code and holder name
           [header |-> Header(<<"HENKOU">>, None, Date1, Date2),
            honbun |-> Honbun((IdTargetCompany :> <<"X", "sha">>)
                                @@ (IdRatioBefore :> <<"3", ".", "0", "0">>)
                                @@ (IdRatio :> <<" ", "5", ".", "2", "5", "%">>))]

RECURSIVE SeqsUpTo(_, _)
SeqsUpTo(S, n) ==
    IF n = 0 THEN {<<>>}
    ELSE SeqsUpTo(S, n - 1)
           \cup {Append(q, x) : q \in {r \in SeqsUpTo(S, n - 1) : Len(r) = n - 1},
                                x \in S}

\* self.parse_files(header_files[0], honbun_files[0]) of each bundle
ParsedTable ==
    [name \in BundleNames |->
        parse_files(Bundle(name).header, Bundle(name).honbun)]

Parsed(name) == ParsedTable[name]

\* if header_files and honbun_files
HasFiles(name) ==
    Bundle(name).header.st # "missing" /\ Bundle(name).honbun.st # "missing"

-----------------------------------------------------------------------------
(* The pipeline: parse_and_filter_reports, one run per invocation of main *)

InitPipe ==
    /\ store = {}
    /\ now = 0
    /\ pc = "idle"
    /\ batch = <<>>
    /\ idx = 1
    /\ results = <<>>
    /\ new_results = <<>>
    /\ messages = <<>>
    /\ dbOpen = FALSE
    /\ gate = <<>>
    /\ recorded = {}
    /\ known = {}
    /\ faults = 0
    /\ sent = <<>>
    /\ exit = "none"
    /\ log = <<>>

NoInput == [given |-> FALSE]
NoOutput == [done |-> FALSE]

Init ==
    /\ InitPipe
    /\ inp = NoInput
    /\ out = NoOutput

\* main up to the loop of parse_directory: fetch_reports adds the bundles it
\* downloaded to the download directory (nothing removes the older ones), the
\* parser is constructed (the store is opened) and the bundles are discovered
StartRun ==
    /\ pc = "idle"
    /\ now < MaxRuns
    /\ \E new \in SeqsUpTo(BundleNames, MaxBatch - Len(batch)) :
          batch' = new \o batch
    /\ now' = now + 1
    /\ pc' = "loop"
    /\ idx' = 1
    /\ results' = <<>>
    /\ new_results' = <<>>
    /\ messages' = <<>>
    /\ dbOpen' = TRUE
    /\ gate' = <<>>
    /\ known' = {r.report_id : r \in store}
    /\ sent' = <<>>
    /\ exit' = "none"
    /\ UNCHANGED <<store, recorded, faults, log, inp, out>>

\* sqlite3.connect or create_tables raises in ReportDatabase(): the
\* constructor of EdinetParser catches ImportError only, so the exception
\* leaves parse_and_filter_reports and main
OpenFails ==
    /\ pc = "idle"
    /\ now < MaxRuns
    /\ faults < MaxFaults
    /\ \E new \in SeqsUpTo(BundleNames, MaxBatch - Len(batch)) :
          batch' = new \o batch
    /\ now' = now + 1
    /\ faults' = faults + 1
    /\ idx' = 1
    /\ results' = <<>>
    /\ new_results' = <<>>
    /\ messages' = <<>>
    /\ gate' = <<>>
    /\ known' = {r.report_id : r \in store}
    /\ sent' = <<>>
    /\ exit' = "open_error"
    /\ UNCHANGED <<store, pc, dbOpen, recorded, log, inp, out>>

\* find_latest_directories returns no directory: parse_directory returns the
\* two empty lists at once, without closing the store
NoDirectory ==
    /\ pc = "loop"
    /\ batch = <<>>
    /\ pc' = "format"
    /\ UNCHANGED <<store, now, batch, idx, results, new_results, messages,
                   dbOpen, gate, recorded, known, faults, sent, exit, log, inp,
                   out>>

GateEntry(cls, qerr, werr) == [cls |-> cls, qerr |-> qerr, werr |-> werr]

\* the bundle has no header or no body file, or parse_files returns None
SkipBundle ==
    /\ pc = "loop"
    /\ idx <= Len(batch)
    /\ ~HasFiles(batch[idx]) \/ Parsed(batch[idx]) = None
    /\ idx' = idx + 1
    /\ gate' = Append(gate, GateEntry("skipped", FALSE, FALSE))
    /\ UNCHANGED <<store, now, pc, batch, results, new_results, messages,
                   dbOpen, recorded, known, faults, sent, exit, log, inp,
                   out>>

\* _generate_report_id raises inside is_already_processed: the except branch
\* of parse_directory closes the store and returns [], []
RaiseInLoop ==
    /\ pc = "loop"
    /\ idx <= Len(batch)
    /\ HasFiles(batch[idx])
    /\ Parsed(batch[idx]) # None
    /\ generate_report_id(Parsed(batch[idx])) = Raised
    /\ gate' = Append(gate, GateEntry("raised", FALSE, FALSE))
    /\ results' = <<>>
    /\ new_results' = <<>>
    /\ dbOpen' = FALSE
    /\ pc' = "format"
    /\ UNCHANGED <<store, now, batch, idx, messages, recorded, known, faults,
                   sent, exit, log, inp, out>>

\* mutant: mark_as_processed is called for a bundle that is in the store
SeenBundle_upserts ==
    /\ pc = "loop"
    /\ idx <= Len(batch)
    /\ HasFiles(batch[idx])
    /\ Parsed(batch[idx]) # None
    /\ generate_report_id(Parsed(batch[idx])) # Raised
    /\ is_already_processed(store, Parsed(batch[idx]), FALSE)
    /\ store' = mark_as_processed(store, Parsed(batch[idx]), now, FALSE)
    /\ results' = Append(results, Parsed(batch[idx]))
    /\ idx' = idx + 1
    /\ gate' = Append(gate, GateEntry("seen", FALSE, FALSE))
    /\ UNCHANGED <<now, pc, batch, new_results, messages, dbOpen,
                   recorded, known, faults, sent, exit, log, inp, out>>

\* the bundle is in the store: it goes to results only
SeenBundle ==
    /\ pc = "loop"
    /\ idx <= Len(batch)
    /\ HasFiles(batch[idx])
    /\ Parsed(batch[idx]) # None
    /\ generate_report_id(Parsed(batch[idx])) # Raised
    /\ is_already_processed(store, Parsed(batch[idx]), FALSE)
    /\ results' = Append(results, Parsed(batch[idx]))
    /\ idx' = idx + 1
    /\ gate' = Append(gate, GateEntry("seen", FALSE, FALSE))
    /\ UNCHANGED <<store, now, pc, batch, new_results, messages, dbOpen,
                   recorded, known, faults, sent, exit, log, inp, out>>

\* is_already_processed returns False (the identity is not in the store, or
\* the query failed): the bundle goes to new_results and is recorded; the
\* write may fail
NewBundle ==
    /\ pc = "loop"
    /\ idx <= Len(batch)
    /\ HasFiles(batch[idx])
    /\ Parsed(batch[idx]) # None
    /\ generate_report_id(Parsed(batch[idx])) # Raised
    /\ \E qerr, werr \in BOOLEAN :
          LET result == Parsed(batch[idx])
              failed == (IF qerr THEN 1 ELSE 0) + (IF werr THEN 1 ELSE 0)
          IN  /\ faults + failed <= MaxFaults
              /\ faults' = faults + failed
              /\ ~is_already_processed(store, result, qerr)
              /\ new_results' = Append(new_results, WithReportId(result))
              /\ store' = mark_as_processed(store, result, now, werr)
              /\ recorded' = IF werr THEN recorded
                             ELSE recorded \cup {generate_report_id(result)}
              /\ results' = Append(results, WithReportId(result))
              /\ gate' = Append(gate, GateEntry("new", qerr, werr))
    /\ idx' = idx + 1
    /\ UNCHANGED <<now, pc, batch, messages, dbOpen, known, sent, exit, log,
                   inp, out>>

\* the loop is over: the store is closed and both lists are returned
FinishLoop ==
    /\ pc = "loop"
    /\ idx > Len(batch)
    /\ dbOpen' = FALSE
    /\ pc' = "format"
    /\ UNCHANGED <<store, now, batch, idx, results, new_results, messages,
                   gate, recorded, known, faults, sent, exit, log, inp, out>>

LastTwo(q) == IF Len(q) > 2 THEN Tail(q) ELSE q

FormatRaises ==
    \E i \in 1..Len(new_results) : get_line_message(new_results[i]) = Raised

\* the message loop of parse_and_filter_reports; an exception of
\* get_line_message is not caught, neither there nor in main: the run ends
\* without a message list
Format ==
    /\ pc = "format"
    /\ messages' = IF FormatRaises THEN <<>>
                   ELSE [i \in 1..Len(new_results) |->
                            get_line_message(new_results[i])]
    /\ log' = LastTwo(Append(log, [n |-> Len(batch), gate |-> gate,
                                   nmsg |-> Len(messages'),
                                   raised |-> FormatRaises]))
    /\ pc' = IF FormatRaises THEN "idle" ELSE "send"
    /\ exit' = IF FormatRaises THEN "format_error" ELSE exit
    /\ UNCHANGED <<store, now, batch, idx, results, new_results, dbOpen, gate,
                   recorded, known, faults, sent, inp, out>>

\* one pass of the loop of main: send_line_message catches every exception
\* of push_message
Send ==
    /\ pc = "send"
    /\ Len(sent) < Len(messages)
    /\ \E ok \in BOOLEAN :
          /\ faults + (IF ok THEN 0 ELSE 1) <= MaxFaults
          /\ faults' = faults + (IF ok THEN 0 ELSE 1)
          /\ sent' = Append(sent, [msg |-> messages[Len(sent) + 1], ok |-> ok])
    /\ UNCHANGED <<store, now, pc, batch, idx, results, new_results, messages,
                   dbOpen, gate, recorded, known, exit, log, inp, out>>

\* the loop of main is over
Done ==
    /\ pc = "send"
    /\ Len(sent) = Len(messages)
    /\ pc' = "idle"
    /\ exit' = "ok"
    /\ UNCHANGED <<store, now, batch, idx, results, new_results, messages,
                   dbOpen, gate, recorded, known, faults, sent, log, inp, out>>

Next ==
    \/ StartRun
    \/ SkipBundle
    \/ RaiseInLoop
    \/ SeenBundle
    \/ NewBundle
    \/ FinishLoop
    \/ Format
    \/ Send
    \/ Done
    \/ OpenFails
    \/ NoDirectory

Spec == Init /\ [][Next]_vars

-----------------------------------------------------------------------------
(* The functions of the parser applied to a pair of bundles drawn from the  *)
(* documents below                                                          *)

\* the identifier is absent from the body when the text is None
Opt(id_value, text) ==
    IF text = None THEN [x \in {} |-> <<>>] ELSE (id_value :> text)

DocTypeTexts == {<<"TAIRYO">>, <<"HENKOU">>}
NameTexts == {None, <<"A">>}
ReportDateTexts == {None, Date1, <<"1", "1", "/", "1">>}
SubmissionDateTexts == {None, Date2, <<"6", ".", "2">>}
CodeTexts == {None, <<"9", "4">>}
HolderTexts == {None, <<"B">>}

\* the fields that are not part of the identity: shares, ratios, purpose
OtherTexts ==
    {[shares |-> <<"1", "0", "0">>, ratio |-> <<"5", ".", "3", "1", "%">>,
      before |-> <<"3", ".", "0", "0">>, purpose |-> <<"toushi">>],
     [shares |-> <<"2", "0", "0">>, ratio |-> <<"-">>,
      before |-> None, purpose |-> None]}

InputDocs ==
    {[header |-> Header(t, n, rd, sd),
      honbun |-> Honbun(Opt(IdTargetCompany, <<"X", "sha">>)
                          @@ Opt(IdSecurityCode, c) @@ Opt(IdHolderName, h)
                          @@ Opt(IdRatio, o.ratio)
                          @@ Opt(IdRatioBefore, o.before)
                          @@ Opt(IdSharesHeld, o.shares)
                          @@ Opt(IdPurpose, o.purpose))] :
        t \in DocTypeTexts, n \in NameTexts, rd \in ReportDateTexts,
        sd \in SubmissionDateTexts, c \in CodeTexts, h \in HolderTexts,
        o \in OtherTexts}

InitFn ==
    /\ InitPipe
    /\ inp \in [given : {TRUE}, a : InputDocs, b : InputDocs]
    /\ out = NoOutput

\* _generate_report_id of what parse_files returned
IdentityOf(result) ==
    IF result = None THEN None ELSE generate_report_id(result)

\* parse_files and _generate_report_id on both bundles
ApplyFn ==
    /\ inp.given
    /\ ~out.done
    /\ LET fa == parse_files(inp.a.header, inp.a.honbun)
           fb == parse_files(inp.b.header, inp.b.honbun)
       IN  out' = [done |-> TRUE, fa |-> fa, fb |-> fb,
                   ida |-> IdentityOf(fa), idb |-> IdentityOf(fb)]
    /\ UNCHANGED <<pipe, inp>>

NextFn == ApplyFn

SpecFn == InitFn /\ [][NextFn]_vars

-----------------------------------------------------------------------------
(* Properties of the identity *)

\* s without its non-digit symbols, digits in their order
RECURSIVE OnlyDigits(_)
OnlyDigits(s) ==
    IF s = <<>> THEN <<>>
    ELSE IF Head(s) \in Digits THEN <<Head(s)>> \o OnlyDigits(Tail(s))
    ELSE OnlyDigits(Tail(s))

IdentityFields ==
    {"security_code", "submission_date", "report_date", "report_type",
     "holder_name"}

\* the value the identity is to use for a field: the placeholder when absent
OrPlaceholder(v) == IF v = None THEN Fumei ELSE v

Joined(code, submission_digits, report_digits, type, holder) ==
    code \o <<"_">> \o submission_digits \o <<"_">> \o report_digits
      \o <<"_">> \o type \o <<"_">> \o holder

\* the digit sequence of a date, None for an absent date
DigitsOf(d) == IF d = None THEN None ELSE OnlyDigits(d)

\* two filings agree on the five identity fields
SameFive(f, g) ==
    /\ f["security_code"] = g["security_code"]
    /\ DigitsOf(f["submission_date"]) = DigitsOf(g["submission_date"])
    /\ DigitsOf(f["report_date"]) = DigitsOf(g["report_date"])
    /\ f["report_type"] = g["report_type"]
    /\ f["holder_name"] = g["holder_name"]

\* C8: identity_of is total: for every filing the extractor and normalizer
\* produce, also one without submission_date, report_date, security_code or
\* holder_name, it returns a string, with the placeholder in place of each
\* missing component.
C8_IdentityTotal ==
    out.done =>
        /\ out.ida # Raised
        /\ out.ida = Joined(OrPlaceholder(out.fa["security_code"]),
                            OnlyDigits(OrPlaceholder(out.fa["submission_date"])),
                            OnlyDigits(OrPlaceholder(out.fa["report_date"])),
                            out.fa["report_type"],
                            OrPlaceholder(out.fa["holder_name"]))

\* C9: two filings that agree on security_code, on the digits of
\* submission_date, on the digits of report_date, on report_type and on
\* holder_name get the same identity, whatever their shares, ratios, purpose
\* or target company are.
C9_IdentityIgnoresOtherFields ==
    (out.done /\ SameFive(out.fa, out.fb)) => out.ida = out.idb

\* C9 witness: two filings with different shares and ratios, the same five
\* fields and an identity string
C9_Witness ==
    /\ out.done
    /\ SameFive(out.fa, out.fb)
    /\ out.fa["shares_held"] # out.fb["shares_held"]
    /\ out.fa # out.fb
    /\ out.fa["submission_date"] # out.fb["submission_date"]
    /\ out.ida # Raised

\* C10: with all five identity fields present the identity is security_code,
\* digits(submission_date), digits(report_date), report_type, holder_name
\* joined in that order by "_"; digits(d) drops every non-digit and keeps the
\* order of the digits.
C10_IdentityFormat ==
    (out.done /\ \A k \in IdentityFields : out.fa[k] # None) =>
        out.ida = Joined(out.fa["security_code"],
                         OnlyDigits(out.fa["submission_date"]),
                         OnlyDigits(out.fa["report_date"]),
                         out.fa["report_type"],
                         out.fa["holder_name"])

\* C10 witness: all five fields present, both dates holding non-digits
C10_Witness ==
    /\ out.done
    /\ \A k \in IdentityFields : out.fa[k] # None
    /\ OnlyDigits(out.fa["submission_date"]) # out.fa["submission_date"]
    /\ OnlyDigits(out.fa["report_date"]) # out.fa["report_date"]
    /\ out.ida = <<"9", "4", "_", "6", "2", "_", "1", "1", "1", "_", "HENKOU",
                   "_", "B">>

-----------------------------------------------------------------------------
(* Properties of the pipeline *)

\* the identity the gate looks up for the bundle at position k
IdAt(k) == generate_report_id(Parsed(batch[k]))

\* the bundle at position k yields a filing with an identity
Gated(k) ==
    HasFiles(batch[k]) /\ Parsed(batch[k]) # None /\ IdAt(k) # Raised

\* the filing of position k as the loop keeps it in new_results
FilingAt(k) == WithReportId(Parsed(batch[k]))

LastOf(q) == q[Len(q)]

\* a store access failed in the run whose gate history is g
Faulty(g) == \E k \in 1..Len(g) : g[k].qerr \/ g[k].werr

\* the number of messages the finished run e returned for position k
MsgsFor(e, k) ==
    IF e.raised \/ k > Len(e.gate) \/ LastOf(e.gate).cls = "raised" THEN 0
    ELSE IF e.gate[k].cls = "new" THEN 1 ELSE 0

\* the filings the gate classified as new up to position k, in order
RECURSIVE GateNew(_)
GateNew(k) ==
    IF k = 0 THEN <<>>
    ELSE IF k <= Len(gate) /\ gate[k].cls = "new"
    THEN Append(GateNew(k - 1), FilingAt(k))
    ELSE GateNew(k - 1)

InSeq(x, q) == \E m \in 1..Len(q) : q[m] = x

CountIn(x, q) == Cardinality({m \in 1..Len(q) : q[m] = x})

\* the positions other than l where the bundle of position l was classified
\* as new in this run
OtherNew(l) ==
    {m \in 1..Len(gate) : m # l /\ batch[m] = batch[l] /\ gate[m].cls = "new"}

\* C1: a bundle processed in two successive runs against the same store
\* yields exactly one message in total: the first run classifies it as new
\* and renders one message, the second run classifies it as seen and renders
\* none.  (Stated for two runs without store failure and a bundle that the
\* gate of the first run classified as new.)
C1_TwoRunsOneMessage ==
    (pc = "idle" /\ Len(log) = 2 /\ ~Faulty(log[1].gate)
       /\ ~Faulty(log[2].gate)) =>
        \A p \in 1..log[1].n :
            LET q == p + (log[2].n - log[1].n)
            IN  (/\ HasFiles(batch[q])
                 /\ Parsed(batch[q]) # None
                 /\ p <= Len(log[1].gate)
                 /\ log[1].gate[p].cls = "new") =>
                    /\ MsgsFor(log[1], p) = 1
                    /\ MsgsFor(log[2], q) = 0
                    /\ q <= Len(log[2].gate)
                    /\ log[2].gate[q].cls = "seen"

\* C2: is_new(i) is false after record(i) has completed and true for an
\* identity that was never recorded: whenever the gate's query succeeds, the
\* bundle is classified as seen exactly when its identity has been recorded.
C2_IsNewIffNotRecorded ==
    [][(/\ pc = "loop"
        /\ Len(gate') = Len(gate) + 1
        /\ LastOf(gate').cls \in {"new", "seen"}
        /\ ~LastOf(gate').qerr) =>
           (LastOf(gate').cls = "seen" <=> IdAt(idx) \in recorded)]_vars

\* C2 witness: a bundle was classified as seen after its identity had been
\* recorded
C2_Witness ==
    \E k \in 1..Len(gate) :
        gate[k].cls = "seen" /\ Gated(k) /\ IdAt(k) \in recorded

C4_FailureConfined ==
    pc = "format" =>
        /\ Len(gate) = Len(batch)
        /\ \A k \in 1..Len(gate) :
              gate[k].cls = "new" => InSeq(FilingAt(k), new_results)

\* C5: when the store query behind is_new fails for a bundle, the bundle is
\* not put in the new set and no message is produced for it in that run.
C5_QueryFailureIsConservative ==
    \A k \in 1..Len(gate) :
        gate[k].qerr =>
            /\ gate[k].cls # "new"
            /\ ~InSeq(FilingAt(k), new_results)
            /\ (pc = "idle" =>
                   ~InSeq(get_line_message(FilingAt(k)), messages))

\* two different bundles whose filings agree on the five identity fields and
\* differ in another field
SameIdentityOtherFields(k, l) ==
    /\ batch[k] # batch[l]
    /\ Gated(k) /\ Gated(l)
    /\ SameFive(Parsed(batch[k]), Parsed(batch[l]))
    /\ Parsed(batch[k]) # Parsed(batch[l])

\* C6: when two distinct bundles of one run have the same five identity
\* fields and differ in other fields, the first is classified as new and the
\* second as seen, and the second produces no message: new_results and the
\* messages hold its filing only as often as other copies of the bundle were
\* classified as new.  (The identity is not in the store when the run starts;
\* no store failure on the two bundles.)
C6_FirstSeenWins ==
    \A k, l \in 1..Len(gate) :
        (/\ k < l
         /\ SameIdentityOtherFields(k, l)
         /\ IdAt(k) \notin known
         /\ \A j \in 1..(k - 1) : Gated(j) => IdAt(j) # IdAt(k)
         /\ ~gate[k].qerr /\ ~gate[k].werr /\ ~gate[l].qerr) =>
            /\ gate[k].cls = "new"
            /\ gate[l].cls = "seen"
            /\ CountIn(FilingAt(l), new_results) <= Cardinality(OtherNew(l))
            /\ (pc = "idle" =>
                   CountIn(get_line_message(FilingAt(l)), messages)
                     <= Cardinality(OtherNew(l)))

\* C6 witness: a finished run with such a pair, the first bundle's message
\* in the list the run returned
C6_Witness ==
    /\ pc = "idle"
    /\ Len(gate) = 2
    /\ SameIdentityOtherFields(1, 2)
    /\ gate[1].cls = "new" /\ gate[2].cls = "seen"
    /\ ~Faulty(gate)
    /\ messages = <<get_line_message(FilingAt(1))>>

\* C7: the list of messages a run produces holds exactly one message for
\* each bundle the gate classified as new in that run, in discovery order,
\* and none for a bundle classified as seen or skipped.
C7_MessagesAreTheNewOnes ==
    (pc = "idle" /\ now > 0) =>
        /\ Len(messages) = Len(GateNew(Len(gate)))
        /\ \A m \in 1..Len(messages) :
              messages[m] = get_line_message(GateNew(Len(gate))[m])

-----------------------------------------------------------------------------
(* _clean_data applied to the raw mappings the two extractors can build     *)

\* raw ratio texts: absent, empty, a percentage, no digit, two tokens, an
\* integer followed by a dot after a word, a fraction without integer part
RatioRaw ==
    {None, <<>>, <<"5", ".", "3", "1", "%">>, <<"-">>,
     <<"5", ".", "3", " ", "6", "%">>, <<"yaku", "1", "2", ".">>,
     <<".", "5">>}

RawMappings ==
    {[report_type |-> Tairyo, target_company |-> tc,
      security_code |-> <<"9", "4">>, holder_name |-> h,
      holding_ratio |-> r, report_date |-> rd, submission_date |-> Date2,
      shares_held |-> sh, purpose |-> <<"toushi">>] :
        tc \in {None, <<"X", "sha">>}, h \in {None, <<"A">>}, r \in RatioRaw,
        rd \in {None, Date1}, sh \in {None, <<"1", ",", "0", "0", "0", "%">>}}
      \cup
    {[report_type |-> Henkou, target_company |-> tc,
      security_code |-> <<"9", "4">>, holder_name |-> <<"A">>,
      holding_ratio_before |-> b, holding_ratio_after |-> a,
      report_date |-> Date1, submission_date |-> Date2,
      shares_held |-> sh, purpose |-> <<"toushi">>] :
        tc \in {None, <<"X", "sha">>}, b \in RatioRaw, a \in RatioRaw,
        sh \in {None, <<"1", ",", "0", "0", "0", "%">>}}

InitNorm ==
    /\ InitPipe
    /\ inp \in [given : {TRUE}, raw : RawMappings]
    /\ out = NoOutput

\* data = self._clean_data(data), and _clean_data applied to its own result
ApplyNorm ==
    /\ inp.given
    /\ ~out.done
    /\ out' = [done |-> TRUE, once |-> clean_data(inp.raw),
               twice |-> clean_data(clean_data(inp.raw))]
    /\ UNCHANGED <<pipe, inp>>

NextNorm == ApplyNorm

SpecNorm == InitNorm /\ [][NextNorm]_vars

-----------------------------------------------------------------------------
(* Properties of the normalisation *)

\* t is written d+ or d+.d+
IsNumberToken(t) ==
    \/ AllDigits(t)
    \/ \E i \in 2..(Len(t) - 1) :
          /\ t[i] = "."
          /\ AllDigits(SubSeq(t, 1, i - 1))
          /\ AllDigits(SubSeq(t, i + 1, Len(t)))

\* t is the leftmost number token of v, taken as long as it can be
IsFirstToken(t, v) ==
    \E i \in 1..Len(v) :
        /\ \A j \in 1..(i - 1) : ~IsDigit(v[j])
        /\ i + Len(t) - 1 <= Len(v)
        /\ t = SubSeq(v, i, i + Len(t) - 1)
        /\ IsNumberToken(t)
        /\ \A e \in (i + Len(t))..Len(v) : ~IsNumberToken(SubSeq(v, i, e))

\* C11: normalize replaces every absent field by the placeholder 不明: the
\* mapping it returns has no None, and a field that was absent (such as
\* target_company of a body without the target-company identifier) holds the
\* placeholder.
C11_AbsentBecomesPlaceholder ==
    out.done =>
        \A k \in DOMAIN out.once :
            /\ out.once[k] # None
            /\ (inp.raw[k] = None => out.once[k] = Fumei)

\* C12: normalize is total and idempotent: it returns a mapping over the
\* same fields for every raw mapping, and normalizing that mapping again
\* changes nothing.
C12_NormalizeIdempotent ==
    out.done =>
        /\ DOMAIN out.once = DOMAIN inp.raw
        /\ out.twice = out.once

\* C12 witness: a mapping with an absent field, a ratio with two numeric
\* tokens and a ratio without a digit, changed by the first pass
C12_Witness ==
    /\ out.done
    /\ inp.raw["report_type"] = Henkou
    /\ inp.raw["target_company"] = None
    /\ inp.raw["holding_ratio_before"] = <<"5", ".", "3", " ", "6", "%">>
    /\ inp.raw["holding_ratio_after"] = <<"-">>
    /\ out.once # inp.raw
    /\ out.twice = out.once

\* C13: a present value of a holding_ratio field is replaced by its leftmost
\* decimal-or-integer token, and kept as it is when it has no digit; every
\* other field keeps its value.
C13_RatioIsFirstToken ==
    out.done =>
        \A k \in DOMAIN inp.raw :
            IF IsRatioKey(k) /\ inp.raw[k] # None
            THEN IF HasDigit(inp.raw[k])
                 THEN IsFirstToken(out.once[k], inp.raw[k])
                 ELSE out.once[k] = inp.raw[k]
            ELSE ~IsRatioKey(k) => out.once[k] = inp.raw[k]

\* C13 witness: "5.31%" became "5.31", a dash stayed a dash and the share
\* count kept its digits, comma and percent sign
C13_Witness ==
    /\ out.done
    /\ inp.raw["report_type"] = Henkou
    /\ inp.raw["holding_ratio_before"] = <<"5", ".", "3", "1", "%">>
    /\ out.once["holding_ratio_before"] = <<"5", ".", "3", "1">>
    /\ inp.raw["holding_ratio_after"] = <<"-">>
    /\ out.once["holding_ratio_after"] = <<"-">>
    /\ out.once["shares_held"] = <<"1", ",", "0", "0", "0", "%">>

-----------------------------------------------------------------------------
(* _get_report_type, parse_files and get_line_message applied to one bundle *)
(* drawn from the documents below                                           *)

\* texts of the 提出書類 value cell; None: the header has no such row
ShoruiTexts ==
    {None, <<"TAIRYO">>, <<"teisei", "HENKOU">>, <<"sonota">>, <<" ">>}

TitleTexts == {None, <<"TAIRYO">>, <<"HENKOU">>, <<"sonota">>}

\* a row is left out when its value is None
Rows(q) == SelectSeq(q, LAMBDA r : r[2] # None)

\* headers whose first table holds the filer rows; the 提出書類 row is in the
\* first table (place 1) or in a second table (place 2)
DocHeaders ==
    {[st |-> "ok",
      tables |->
        IF place = 1
        THEN <<Rows(<<Row("SHORUI", t), Row("SHIMEI", n), Row("GIMUBI", rd),
                      Row("TEISHUTSUBI", Date2)>>)>>
        ELSE <<Rows(<<Row("SHIMEI", n), Row("GIMUBI", rd),
                      Row("TEISHUTSUBI", Date2)>>),
               Rows(<<Row("SHORUI", t)>>)>>,
      title |-> ti] :
        t \in ShoruiTexts, place \in {1, 2}, ti \in TitleTexts,
        n \in {None, <<" ">>, <<"A">>}, rd \in {None, Date1}}

\* raw ratio texts of a body
DocRatios ==
    {None, <<"5", ".", "2", "5", "%">>, <<"3", ".", "0", "0">>,
     <<"1", "0", ".", "3">>, <<"-">>}

DocBodies ==
    {Honbun(Opt(IdTargetCompany, tc) @@ Opt(IdSecurityCode, <<"9", "4">>)
              @@ Opt(IdHolderName, h) @@ Opt(IdRatio, a)
              @@ Opt(IdRatioBefore, b)
              @@ Opt(IdSharesHeld, <<"1", "0", "0">>)
              @@ Opt(IdPurpose, pu)) :
        tc \in {None, <<" ">>, <<"X", "sha">>}, h \in {None, <<"B">>},
        a \in DocRatios, b \in DocRatios, pu \in {None, <<"toushi">>}}

InitDoc ==
    /\ InitPipe
    /\ inp \in [given : {TRUE}, header : DocHeaders, honbun : DocBodies]
    /\ out = NoOutput

\* parser.get_line_message(result) of a result that is not None
MessageOf(result) ==
    IF result = None THEN None ELSE get_line_message(result)

\* the report type of the header, the result of parse_files and its message
ApplyDoc ==
    /\ inp.given
    /\ ~out.done
    /\ LET f == parse_files(inp.header, inp.honbun)
       IN  out' = [done |-> TRUE, kind |-> get_report_type(inp.header),
                   f |-> f, msg |-> MessageOf(f)]
    /\ UNCHANGED <<pipe, inp>>

NextDoc == ApplyDoc

SpecDoc == InitDoc /\ [][NextDoc]_vars

-----------------------------------------------------------------------------
(* Properties of the classifier, the extractor and the formatter *)

\* seg occurs in text
Within(seg, text) ==
    \E i \in 1..(Len(text) - Len(seg) + 1) :
        SubSeq(text, i, i + Len(seg) - 1) = seg

\* the 提出書類 values of the header: second cells of the rows, in any table,
\* whose first cell contains the label
DeclaredTypes(header) ==
    {header.tables[t][i][2] :
        <<t, i>> \in {x \in (1..Len(header.tables)) \X (1..4) :
                        /\ x[2] <= Len(header.tables[x[1]])
                        /\ Len(header.tables[x[1]][x[2]]) >= 2
                        /\ Contains(header.tables[x[1]][x[2]][1], "SHORUI")}}

TemplateFields(report_type) ==
    IF report_type = Tairyo
    THEN {"target_company", "security_code", "holder_name", "holding_ratio",
          "shares_held", "report_date", "purpose"}
    ELSE {"target_company", "security_code", "holder_name",
          "holding_ratio_before", "holding_ratio_after", "shares_held",
          "report_date", "purpose"}

\* the part of its template line in which field k shows the value v
Shown(k, v) ==
    CASE k = "target_company" -> <<"[office]", " ">> \o v \o <<" ", "(">>
      [] k = "security_code" -> <<" ", "(">> \o v \o <<")", "NL">>
      [] k = "holder_name" -> <<"[person]", " ">> \o v \o <<"NL">>
      [] k = "holding_ratio" -> <<"ratio", ":", " ">> \o v \o <<"%", "NL">>
      [] k = "holding_ratio_before" ->
           <<"before", ":", " ">> \o v \o <<"%", "NL">>
      [] k = "holding_ratio_after" ->
           <<"after", ":", " ">> \o v \o <<"%", " ", "(">>
      [] k = "shares_held" -> <<"[memo]", " ">> \o v \o <<"kabu", "NL">>
      [] k = "report_date" -> <<"[date]", " ">> \o v \o <<"NL", "[find]">>
      [] k = "purpose" -> <<"purpose", ":", " ">> \o v

\* the delta of a change-report message: the text between "% (" and ")"
DeltaText(msg) ==
    LET i == CHOOSE k \in 1..Len(msg) : SubSeq(msg, k, k + 2) = <<"%", " ", "(">>
        j == CHOOSE k \in (i + 3)..Len(msg) :
                 msg[k] = ")" /\ \A m \in (i + 3)..(k - 1) : msg[m] # ")"
    IN  SubSeq(msg, i + 3, j - 1)

\* b is written d+.dd
TwoPlaces(b) ==
    /\ Len(b) >= 4
    /\ b[Len(b) - 2] = "."
    /\ AllDigits(SubSeq(b, 1, Len(b) - 3))
    /\ AllDigits(SubSeq(b, Len(b) - 1, Len(b)))

\* the value of d+.dd in hundredths
TwoPlacesValue(b) ==
    100 * NatVal(SubSeq(b, 1, Len(b) - 3)) + NatVal(SubSeq(b, Len(b) - 1, Len(b)))

Abs(n) == IF n < 0 THEN 0 - n ELSE n

\* t is sign, |d| with two decimal places, "%"
SignedDelta(t, d) ==
    /\ Len(t) >= 6
    /\ t[1] = (IF d > 0 THEN "+" ELSE IF d < 0 THEN "-" ELSE t[1])
    /\ t[1] \in {"+", "-"}
    /\ t[Len(t)] = "%"
    /\ TwoPlaces(SubSeq(t, 2, Len(t) - 1))
    /\ TwoPlacesValue(SubSeq(t, 2, Len(t) - 1)) = Abs(d)

\* t is |d| with two decimal places and "%", without sign
UnsignedDelta(t, d) ==
    /\ Len(t) >= 5
    /\ t[Len(t)] = "%"
    /\ TwoPlaces(SubSeq(t, 1, Len(t) - 1))
    /\ TwoPlacesValue(SubSeq(t, 1, Len(t) - 1)) = Abs(d)

\* a ratio of the filing that is written as a number
Numeric(v) == v # None /\ FloatOk(v)

\* the ratio in hundredths; zero when it is not written as a number
AsNumber(v) == IF Numeric(v) THEN Float(v) ELSE 0

\* C14: format is total: it returns a message for every filing of either
\* kind without raising, and for a change report a ratio that is absent or
\* is not a number counts as zero in the delta.
C14_FormatTotal ==
    (out.done /\ out.f # None) =>
        /\ out.msg # Raised
        /\ out.f["report_type"] = Henkou =>
              LET d == AsNumber(out.f["holding_ratio_after"])
                         - AsNumber(out.f["holding_ratio_before"])
              IN  IF d = 0 THEN UnsignedDelta(DeltaText(out.msg), d)
                  ELSE SignedDelta(DeltaText(out.msg), d)

\* C15: the message of a filing shows every template field of its kind in
\* its line, a field that was missing in the documents as the placeholder
\* 不明.
C15_MissingShownAsPlaceholder ==
    (out.done /\ out.f # None /\ out.msg # Raised) =>
        \A k \in TemplateFields(out.f["report_type"]) :
            Within(Shown(k, IF out.f[k] = None THEN Fumei ELSE out.f[k]),
                   out.msg)

\* C16 as stated: the delta of a change report is after minus before with a
\* leading sign, two decimal places and "%", for every pair of ratios in
\* hundredths.
C16_DeltaAlwaysSigned ==
    (/\ out.done /\ out.f # None /\ out.f["report_type"] = Henkou
     /\ Numeric(out.f["holding_ratio_before"])
     /\ Numeric(out.f["holding_ratio_after"])) =>
        SignedDelta(DeltaText(out.msg),
                    Float(out.f["holding_ratio_after"])
                      - Float(out.f["holding_ratio_before"]))

\* C16 amended: the delta of a change report is after minus before with two
\* decimal places and "%", led by "+" when it is positive, by "-" when it is
\* negative and by no sign when it is zero, for every pair of ratios in
\* hundredths.
C16_DeltaSignedUnlessZero ==
    (/\ out.done /\ out.f # None /\ out.f["report_type"] = Henkou
     /\ Numeric(out.f["holding_ratio_before"])
     /\ Numeric(out.f["holding_ratio_after"])) =>
        LET d == Float(out.f["holding_ratio_after"])
                   - Float(out.f["holding_ratio_before"])
        IN  IF d = 0 THEN UnsignedDelta(DeltaText(out.msg), d)
            ELSE SignedDelta(DeltaText(out.msg), d)

\* C16 witness: before 3.00 and after 5.25 (written "5.25%" in the body)
\* give "+2.25%"
C16_Witness ==
    /\ out.done /\ out.f # None /\ out.f["report_type"] = Henkou
    /\ out.f["holding_ratio_before"] = <<"3", ".", "0", "0">>
    /\ out.f["holding_ratio_after"] = <<"5", ".", "2", "5">>
    /\ DeltaText(out.msg) = <<"+", "2", ".", "2", "5", "%">>

\* C17: the kind is ChangeReport when a row of the header has the 提出書類
\* label in its first cell and the 変更報告書 marker in its second, and
\* LargeVolumeReport when a labelled row exists without the marker; when no
\* row of the header's tables has the label, the kind is ChangeReport iff
\* the title contains the marker, LargeVolumeReport otherwise.
C17_ClassifyByDeclaredType ==
    out.done =>
        LET declared == DeclaredTypes(inp.header)
        IN  IF \E v \in declared : Contains(v, "HENKOU")
            THEN out.kind = Henkou
            ELSE IF declared # {}
            THEN out.kind = Tairyo
            ELSE inp.header.title # None =>
                    out.kind = (IF Contains(inp.header.title, "HENKOU")
                                THEN Henkou ELSE Tairyo)

\* C19: a change report's mapping has holding_ratio_before and
\* holding_ratio_after and no holding_ratio, a large-volume report's mapping
\* has holding_ratio and neither of the two; report_type is the kind the
\* classifier returned for the header.
C19_RatioFieldsFollowKind ==
    (out.done /\ out.f # None) =>
        /\ out.f["report_type"] = out.kind
        /\ out.kind = Henkou =>
              /\ {"holding_ratio_before", "holding_ratio_after"}
                    \subseteq DOMAIN out.f
              /\ "holding_ratio" \notin DOMAIN out.f
        /\ out.kind = Tairyo =>
              /\ "holding_ratio" \in DOMAIN out.f
              /\ "holding_ratio_before" \notin DOMAIN out.f
              /\ "holding_ratio_after" \notin DOMAIN out.f

\* C19 witness: a header declaring a change report, the ratio before the
\* change read from its own identifier
C19_Witness ==
    /\ out.done
    /\ DeclaredTypes(inp.header) = {<<"teisei", "HENKOU">>}
    /\ out.kind = Henkou
    /\ out.f # None
    /\ out.f["holding_ratio_before"] = <<"3", ".", "0", "0">>
    /\ out.f["holding_ratio_after"] = <<"1", "0", ".", "3">>

\* C20: every field of the mapping the extractor returns is a non-empty
\* string or absent, never the empty string.
C20_NoEmptyField ==
    (out.done /\ out.f # None) =>
        \A k \in DOMAIN out.f : out.f[k] # <<>>

-----------------------------------------------------------------------------
(* Skipped bundles in the pipeline *)

\* the bundles without header or body file, with a file that cannot be
\* parsed, or with a header of unknown kind
SkipNames ==
    {name \in BundleNames :
        \/ Bundle(name).header.st # "ok"
        \/ Bundle(name).honbun.st # "ok"
        \/ get_report_type(Bundle(name).header) = Fumei}

MustSkip(name) == name \in SkipNames

\* per bundle with a filing: the filing as parse_files returns it, as the
\* loop keeps it, and its message
KeptForms ==
    [name \in {n \in BundleNames : HasFiles(n) /\ Parsed(n) # None} |->
        [filings |-> {Parsed(name), WithReportId(Parsed(name))},
         message |-> get_line_message(WithReportId(Parsed(name)))]]

\* the positions handled so far whose bundle is not one to skip
Kept == {k \in 1..Len(gate) : ~MustSkip(batch[k])}

\* every element of q is the filing or the message of a kept position
FromKept(q, isMessage) ==
    /\ Len(q) <= Cardinality(Kept)
    /\ \A m \in 1..Len(q) :
          \E k \in Kept :
              /\ batch[k] \in DOMAIN KeptForms
              /\ IF isMessage THEN q[m] = KeptForms[batch[k]].message
                 ELSE q[m] \in KeptForms[batch[k]].filings

\* C18: a bundle of unknown kind, without header or body file, or whose
\* parsing raises is skipped as a whole: the loop passes over it, results
\* and new_results hold only filings of other bundles, the store gets no row
\* for it and the messages are messages of other bundles.
C18_SkippedAsAWhole ==
    /\ \A k \in 1..Len(gate) : MustSkip(batch[k]) <=> gate[k].cls = "skipped"
    /\ FromKept(results, FALSE)
    /\ FromKept(new_results, FALSE)
    /\ \A r \in store :
          \/ r.report_id \in known
          \/ \E k \in Kept : Gated(k) /\ IdAt(k) = r.report_id
    /\ pc = "idle" => FromKept(messages, TRUE)

\* C18 witness: a finished run over two bundles, one of them of unknown
\* kind, unreadable or without header or body; the other one is the only one
\* in results, in the store and in the messages
C18_Witness ==
    /\ pc = "idle"
    /\ now = 1
    /\ Len(gate) = 2
    /\ \E k \in 1..2 : batch[k] \in {"unknown", "badfile", "nobody", "noheader"}
    /\ Cardinality(Kept) = 1
    /\ Len(results) = 1 /\ Len(new_results) = 1 /\ Len(messages) = 1
    /\ Cardinality(store) = 1

-----------------------------------------------------------------------------
(* Recording, run exit and notification *)

\* a step of the loop that handled the bundle at idx with classification c
Handled(c) ==
    pc = "loop" /\ Len(gate') = Len(gate) + 1 /\ LastOf(gate').cls = c

\* C21: recording is fail-closed: a step whose store write fails leaves the
\* store as it was, and an identity that had no row before still has none, so
\* that a later is_new on it returns true.
C21_FailedWriteLeavesStore ==
    [][(Handled("new") /\ LastOf(gate').werr) =>
          /\ store' = store
          /\ ~HasRow(store, IdAt(idx)) =>
                ~db_is_already_processed(store', IdAt(idx), FALSE)]_vars

\* C21 witness: the write for a bundle failed in the first run, and the
\* second run, whose query succeeded, classified the bundle as new again
C21_Witness ==
    /\ now = 2
    /\ Len(log) = 1
    /\ \E p \in 1..Len(log[1].gate) :
          /\ log[1].gate[p].werr
          /\ LET q == p + (Len(batch) - log[1].n)
             IN  /\ q <= Len(gate)
                 /\ gate[q].cls = "new"
                 /\ ~gate[q].qerr

\* C22: a run ends abnormally only when the store cannot be opened; every
\* other error is recovered and the run completes; a run that could not open
\* the store sends nothing.
C22_OnlyOpenFailureIsFatal ==
    /\ exit \in {"none", "ok", "open_error"}
    /\ exit = "open_error" => (messages = <<>> /\ sent = <<>>)

\* the number of messages the loop of parse_and_filter_reports rendered
\* before get_line_message raised, all of them when it did not
RenderedCount ==
    IF FormatRaises
    THEN (CHOOSE i \in 1..Len(new_results) :
             /\ get_line_message(new_results[i]) = Raised
             /\ \A j \in 1..(i - 1) :
                   get_line_message(new_results[j]) # Raised) - 1
    ELSE Len(new_results)

\* C24: each message the run rendered is handed to send_line_message exactly
\* once, in order, whether or not an earlier send failed.
C24_EachMessageSentOnce ==
    /\ Len(sent) <= RenderedCount
    /\ \A i \in 1..Len(sent) : sent[i].msg = get_line_message(new_results[i])
    /\ (pc = "idle" /\ exit \in {"ok", "format_error"}) =>
          Len(sent) = RenderedCount

\* C25: the mapping of a filing is not changed by the check and the record
\* operation: every mapping in new_results, which the formatter receives, is
\* the mapping parse_files returned for a bundle of the batch.
C25_FilingUnchanged ==
    \A m \in 1..Len(new_results) :
        \E k \in 1..Len(gate) : new_results[m] = Parsed(batch[k])

\* C26: the pipeline records only on a miss: a step that classifies a bundle
\* as seen or skips it leaves the store as it is, and a step that classifies
\* a bundle as new writes, in that same step, the row of its identity with
\* the time of the run and changes no other row.
C26_RecordOnlyOnMiss ==
    [][/\ (Handled("seen") \/ Handled("skipped")) => store' = store
       /\ (Handled("new") /\ ~LastOf(gate').werr) =>
             \E r \in store' :
                 /\ r.report_id = IdAt(idx)
                 /\ r.processed_at = now
                 /\ store' \ {r} \subseteq store
                 /\ \A r2 \in store \ store' : r2.report_id = IdAt(idx)]_vars

\* C26 witness: the second run classified a bundle as seen whose row still
\* carries the time of the first run
C26_Witness ==
    /\ now = 2
    /\ pc = "idle"
    /\ \E k \in 1..Len(gate) :
          /\ gate[k].cls = "seen"
          /\ \E r \in store : r.report_id = IdAt(k) /\ r.processed_at = 1

\* C27: the store handle is released on every exit path of parse_directory:
\* outside the loop the store is closed.
C27_StoreReleased ==
    pc # "loop" => ~dbOpen

\* C28: no silent drop: when a run is over, every filing it recorded in the
\* store is in the new set it returned and has its message in the messages
\* the run produced.
C28_NoSilentDrop ==
    (pc \in {"send", "idle"} /\ now > 0) =>
        \A k \in 1..Len(gate) :
            (gate[k].cls = "new" /\ ~gate[k].werr) =>
                /\ InSeq(FilingAt(k), new_results)
                /\ InSeq(get_line_message(FilingAt(k)), messages)

\* C29: the row record writes is keyed by the identity is_new looked up for
\* the filing: after the step the store finds that identity, and the
\* report_id handed to the store is that non-empty identity, so the store
\* does not derive a key of its own.
C29_RecordedUnderLookedUpKey ==
    [][(Handled("new") /\ ~LastOf(gate').werr) =>
          /\ LastOf(new_results')["report_id"] = IdAt(idx)
          /\ Truthy(LastOf(new_results')["report_id"])
          /\ \E r \in store' : r.report_id = IdAt(idx)
          /\ \A r \in store' \ store : r.report_id = IdAt(idx)
          /\ db_is_already_processed(store', IdAt(idx), FALSE)]_vars

\* C29 witness: a bundle was just classified as new and the store holds a
\* row under the identity of its filing
C29_Witness ==
    /\ pc = "loop"
    /\ Len(gate) = 2
    /\ gate[2].cls = "new" /\ ~gate[2].werr /\ ~gate[2].qerr
    /\ IdAt(2) \notin known
    /\ HasRow(store, IdAt(2))
    /\ LastOf(new_results)["report_id"] = IdAt(2)

-----------------------------------------------------------------------------
(* Injectivity of the identity *)

\* the numbers written in a date, in order: its maximal runs of digits
RECURSIVE DateParts(_)
DateParts(d) ==
    IF d = <<>> THEN <<>>
    ELSE IF ~IsDigit(Head(d)) THEN DateParts(Tail(d))
    ELSE LET e == DigitRunEnd(d, 1)
         IN  <<SubSeq(d, 1, e)>> \o DateParts(SubSeq(d, e + 1, Len(d)))

\* the five fields of a filing, a date as the numbers written in it
FiveFields(f) ==
    <<f["security_code"],
      IF f["submission_date"] = None THEN None
      ELSE DateParts(f["submission_date"]),
      IF f["report_date"] = None THEN None ELSE DateParts(f["report_date"]),
      f["report_type"], f["holder_name"]>>

\* C30: two filings that differ in at least one of security_code,
\* submission date, report date, report_type and holder_name get different
\* identities (two dates differ when the numbers written in them differ, so
\* that two renderings of one date do not count as a difference).
C30_IdentityInjective ==
    (/\ out.done
     /\ out.fa # None /\ out.fb # None
     /\ out.ida # Raised /\ out.idb # Raised
     /\ FiveFields(out.fa) # FiveFields(out.fb)) =>
        out.ida # out.idb

-----------------------------------------------------------------------------
(* The gate of the parser over the three store backends, side by side:      *)
(* ReportDatabase (SQLite), MySQLReportDatabase, and the JSON file the      *)
(* parser falls back to when the db module cannot be imported               *)

\* the weight of a symbol under COLLATE utf8mb4_unicode_ci: letter case is
\* not distinguished
Fold(c) ==
    CASE c = "a" -> "A" [] c = "b" -> "B" [] c = "c" -> "C" [] OTHER -> c

FoldText(t) == [i \in 1..Len(t) |-> Fold(t[i])]

\* report_id = %s on the VARCHAR column of the MySQL table
MysqlEq(x, y) == FoldText(x) = FoldText(y)

\* MySQLReportDatabase.is_already_processed
mysql_is_already_processed(rows, report_id) ==
    \E r \in rows : MysqlEq(r.report_id, report_id)

\* the row ReportDatabase, MySQLReportDatabase and the JSON branch build
RowOf(report_id, report_info, processed_at) ==
    [report_id |-> report_id,
     processed_at |-> processed_at,
     target_company |-> GetOr(report_info, "target_company", Fumei),
     security_code |-> GetOr(report_info, "security_code", Fumei),
     report_type |-> GetOr(report_info, "report_type", Fumei),
     holder_name |-> GetOr(report_info, "holder_name", Fumei),
     report_date |-> GetOr(report_info, "report_date", Fumei),
     submission_date |-> GetOr(report_info, "submission_date", Fumei)]

\* MySQLReportDatabase.mark_as_processed: INSERT ... ON DUPLICATE KEY UPDATE
\* keeps the report_id of the row whose key compares equal
mysql_mark_as_processed(rows, report_info, processed_at) ==
    LET report_id == db_report_id(report_info)
        dup == {r \in rows : MysqlEq(r.report_id, report_id)}
    IN  IF dup = {} THEN rows \cup {RowOf(report_id, report_info, processed_at)}
        ELSE (rows \ dup)
               \cup {RowOf(r.report_id, report_info, processed_at) : r \in dup}

\* the else branch of EdinetParser.is_already_processed
json_is_already_processed(rows, report_info) ==
    \E r \in rows : r.report_id = generate_report_id(report_info)

\* the else branch of EdinetParser.mark_as_processed: the dict entry under
\* report_id is replaced
json_mark_as_processed(rows, report_info, processed_at) ==
    InsertOrReplace(rows, RowOf(generate_report_id(report_info), report_info,
                                processed_at))

Filing(code, holder, shares) ==
    [report_type |-> Tairyo, target_company |-> <<"X", "sha">>,
     security_code |-> code, holder_name |-> holder,
     holding_ratio |-> <<"5">>, report_date |-> Date1,
     submission_date |-> Date2, shares_held |-> shares,
     purpose |-> <<"toushi">>]

\* filings of two holders whose names differ in letter case only, a third
\* holder, a filing without security code and a re-filing with other shares
BackendFilings ==
    {Filing(<<"9", "4">>, <<"a", "b", "c">>, <<"1", "0", "0">>),
     Filing(<<"9", "4">>, <<"A", "B", "C">>, <<"1", "0", "0">>),
     Filing(<<"9", "4">>, <<"X">>, <<"1", "0", "0">>),
     Filing(None, <<"X">>, <<"1", "0", "0">>),
     Filing(<<"9", "4">>, <<"X">>, <<"2", "0", "0">>)}

\* the rows all three backends start from
InitialRows ==
    {{},
     {RowOf(generate_report_id(Filing(<<"9", "4">>, <<"X">>, <<"1", "0", "0">>)),
            Filing(<<"9", "4">>, <<"X">>, <<"1", "0", "0">>), 0)}}

InitBackends ==
    /\ InitPipe
    /\ inp \in [given : {TRUE}, rows : InitialRows]
    /\ out = [done |-> FALSE, fed |-> <<>>, cls |-> <<>>, sqlite |-> inp.rows,
              mysql |-> inp.rows, json |-> inp.rows]

\* the body of the loop of parse_directory for one filing, once per backend
Feed ==
    /\ inp.given
    /\ Len(out.fed) < MaxFeed
    /\ \E f \in BackendFilings :
          LET t == Len(out.fed) + 1
              s_seen == is_already_processed(out.sqlite, f, FALSE)
              m_seen == mysql_is_already_processed(out.mysql,
                                                   generate_report_id(f))
              j_seen == json_is_already_processed(out.json, f)
          IN  out' = [done |-> TRUE,
                      fed |-> Append(out.fed, f),
                      cls |-> Append(out.cls, [sqlite |-> s_seen,
                                               mysql |-> m_seen,
                                               json |-> j_seen]),
                      sqlite |-> IF s_seen THEN out.sqlite
                                 ELSE mark_as_processed(out.sqlite, f, t, FALSE),
                      mysql |-> IF m_seen THEN out.mysql
                                ELSE mysql_mark_as_processed(out.mysql,
                                                             WithReportId(f), t),
                      json |-> IF j_seen THEN out.json
                               ELSE json_mark_as_processed(out.json, f, t)]
    /\ UNCHANGED <<pipe, inp>>

NextBackends == Feed

SpecBackends == InitBackends /\ [][NextBackends]_vars

\* C23: the three backends are interchangeable for classification: fed the
\* same filings from the same rows, they classify every filing the same way
\* and hold the same rows (identities and record fields).
C23_BackendsInterchangeable ==
    /\ \A i \in 1..Len(out.cls) :
          out.cls[i].sqlite = out.cls[i].mysql
            /\ out.cls[i].sqlite = out.cls[i].json
    /\ out.sqlite = out.mysql
    /\ out.sqlite = out.json

====
